---- MODULE Spec2Model ----
(***************************************************************************)
(* A model of the reorder-recommendation service (backend/app/main.py and  *)
(* its authenticated twin backend/main.py).                                *)
(*                                                                         *)
(*  - compute_recommendations: column guard, date / numeric coercion,      *)
(*    per-SKU snapshot, demand rate, reorder quantity, stock-out date,     *)
(*    status, trend note, final sort.                                      *)
(*  - the sort of the recommendation list, on its own, over lists of       *)
(*    records (SpecSort).                                                  *)
(*  - _get_jwks_client: the TTL cache of the JWKS client, called from      *)
(*    several worker threads (SpecJwks).                                   *)
(*                                                                         *)
(* Numbers.  pandas hands the engine float64 values.  A numeric cell is    *)
(* either a number or NaN: [nan |-> BOOLEAN, v |-> Int].  Quotients (the   *)
(* daily average and everything derived from it) are exact fractions       *)
(* [n |-> Int, d |-> Nat \ {0}]; float rounding is not modelled.           *)
(* Dates are day numbers; the time of day is not modelled.                 *)
(***************************************************************************)
EXTENDS Integers, Sequences, FiniteSets, TLC

VARIABLES
    cols,          \* df.columns of the uploaded table
    table,         \* the rows of the uploaded table (raw cells)
    horizon_days,  \* the horizon_days argument
    today,         \* date.today(), a day number
    pc,            \* "start" | "done": compute_recommendations not yet run / returned or raised
    result,        \* what compute_recommendations returned or raised
    recs_in,       \* SpecSort: the list before recs.sort
    recs_out,      \* SpecSort: the list after recs.sort
    sort_pc,       \* SpecSort: "unsorted" | "sorted"
    now,           \* SpecJwks: the cache's timer (seconds)
    cache,         \* SpecJwks: _jwks_client_cache["client"]: [present, client, expires]
    tpc,           \* SpecJwks: where each worker thread is in _get_jwks_client
    tlocal,        \* SpecJwks: the PyJWKClient a thread has built and not yet stored
    treturned,     \* SpecJwks: how each thread's latest call ended, and when
    built,         \* SpecJwks: every PyJWKClient constructed: client id -> time of construction
    jwks_url_set   \* SpecJwks: CLERK_JWKS_URL is a non-empty string

vars == <<cols, table, horizon_days, today, pc, result, recs_in, recs_out, sort_pc,
          now, cache, tpc, tlocal, treturned, built, jwks_url_set>>

computeVars == <<cols, table, horizon_days, today, pc, result>>
sortVars == <<recs_in, recs_out, sort_pc>>
jwksVars == <<now, cache, tpc, tlocal, treturned, built, jwks_url_set>>

---------------------------------------------------------------------------
(* Bounds of the model *)

MaxRows == 2        \* rows in an uploaded table
MaxMissing == 2     \* columns (of the seven known ones) absent from an uploaded table
MaxRecs == 4        \* records in a list handed to the sort (SpecSort)
MaxThreads == 2     \* worker threads calling _get_jwks_client
MaxClients == 3     \* PyJWKClient instances constructed in one run
MaxTicks == 4       \* timer advances in one run

---------------------------------------------------------------------------
(* Values *)

NaN == [nan |-> TRUE, v |-> 0]
Num(x) == [nan |-> FALSE, v |-> x]

NaT == [nat |-> TRUE, day |-> 0]
Day(k) == [nat |-> FALSE, day |-> k]

None == [some |-> FALSE, v |-> 0]
Some(x) == [some |-> TRUE, v |-> x]

\* exact fractions, denominator > 0
Rat(a, b) == [n |-> a, d |-> b]
RLe(a, b) == a.n * b.d <= b.n * a.d
RLt(a, b) == a.n * b.d < b.n * a.d
REq(a, b) == a.n * b.d = b.n * a.d
RMulInt(a, k) == Rat(a.n * k, a.d)
RSubInt(a, k) == Rat(a.n - k * a.d, a.d)

\* raw cells of the uploaded CSV
Blank == [kind |-> "text", v |-> 0]          \* empty or not a number / not a date
Lit(x) == [kind |-> "number", v |-> x]       \* text that reads as the number x
DateStr(k) == [kind |-> "date", v |-> k]     \* text that reads as day k

\* a row of the upload; the cell of a column that is absent from cols is
\* not part of the upload and is never read
Row(s, d, u, oh, lt, m, c) ==
    [SKU |-> s, Date |-> d, UnitsSold |-> u, OnHand |-> oh,
     LeadTimeDays |-> lt, MOQ |-> m, Cost |-> c]

---------------------------------------------------------------------------
(* compute_recommendations *)

REQUIRED_COLS == <<"SKU", "Date", "UnitsSold", "OnHand", "LeadTimeDays">>

AllCols == {"SKU", "Date", "UnitsSold", "OnHand", "LeadTimeDays", "MOQ", "Cost"}

\* (a variant that forgets the last required column)
MissingColsSkipLast(c) ==
    SelectSeq(SubSeq(REQUIRED_COLS, 1, Len(REQUIRED_COLS) - 1), LAMBDA x : x \notin c)

\* missing = [c for c in REQUIRED_COLS if c not in df.columns]
MissingCols(c) == SelectSeq(REQUIRED_COLS, LAMBDA x : x \notin c)

\* pd.to_datetime(s, errors="coerce", dayfirst=True): unreadable text becomes NaT
parse_date(cell) == IF cell.kind = "date" THEN Day(cell.v) ELSE NaT

\* pd.to_numeric(df[col], errors="coerce"): unreadable text becomes NaN
to_numeric(cell) == IF cell.kind = "number" THEN Num(cell.v) ELSE NaN

\* one row after the parsing of Date and the numeric coercion of the columns present
NormRow(r, c) ==
    [SKU |-> r.SKU,
     Date |-> parse_date(r.Date),
     UnitsSold |-> to_numeric(r.UnitsSold),
     OnHand |-> to_numeric(r.OnHand),
     LeadTimeDays |-> to_numeric(r.LeadTimeDays),
     MOQ |-> IF "MOQ" \in c THEN Some(to_numeric(r.MOQ)) ELSE None,
     Cost |-> IF "Cost" \in c THEN Some(to_numeric(r.Cost)) ELSE None]

\* df = df.dropna(subset=["Date"]) after the parsing; the numeric coercion
Normalize(tbl, c) ==
    SelectSeq([i \in 1..Len(tbl) |-> NormRow(tbl[i], c)], LAMBDA r : ~r.Date.nat)

\* df.groupby("SKU"): the keys, and the rows of one key (indices into df)
SkuKeys(df) == {df[i].SKU : i \in 1..Len(df)}
Group(df, sku) == {i \in 1..Len(df) : df[i].SKU = sku}

MaxDay(df, g) == CHOOSE m \in {df[i].Date.day : i \in g} :
                    \A i \in g : df[i].Date.day <= m

\* g.sort_values("Date").iloc[-1]: a row with the greatest Date.  The sort is
\* not stable (quicksort), so among rows of equal greatest Date any may be last.
LastRows(df, g) == {i \in g : df[i].Date.day = MaxDay(df, g)}

\* x or 0 on a float: 0.0 is falsy, NaN is truthy and is kept
OrZero(x) == IF ~x.nan /\ x.v = 0 THEN Num(0) ELSE x

\* int(last.get("LeadTimeDays", 0) or 0) raises ValueError on NaN
LeadTimeRaises(row) == OrZero(row.LeadTimeDays).nan

RECURSIVE SumOver(_, _)
SumOver(S, f) ==
    IF S = {} THEN 0
    ELSE LET i == CHOOSE j \in S : TRUE IN f[i] + SumOver(S \ {i}, f)

\* Series.sum() and Series.mean() skip NaN
UnitsOf(df, S) == [i \in S |-> IF df[i].UnitsSold.nan THEN 0 ELSE df[i].UnitsSold.v]
CountUnits(df, S) == Cardinality({i \in S : ~df[i].UnitsSold.nan})

\* recent = g[g["Date"] >= g["Date"].max() - 28d]; if recent.empty: recent = g
Recent(df, g) ==
    LET recent == {i \in g : df[i].Date.day >= MaxDay(df, g) - 28}
    IN  IF recent = {} THEN g ELSE recent

\* (a variant that averages over the rows instead of over the days)
AvgDailyPerRow(df, g) ==
    LET recent == Recent(df, g)
    IN  IF recent = {} THEN Rat(0, 1)
        ELSE Rat(SumOver(recent, UnitsOf(df, recent)), Cardinality(recent))

\* daily = recent.groupby(date)["UnitsSold"].sum(); avg_daily = daily.mean()
AvgDaily(df, g) ==
    LET recent == Recent(df, g)
        days == {df[i].Date.day : i \in recent}
        daily == [dt \in days |->
                    LET rows == {i \in recent : df[i].Date.day = dt}
                    IN  SumOver(rows, UnitsOf(df, rows))]
    IN  IF days = {} THEN Rat(0, 1)
        ELSE Rat(SumOver(days, daily), Cardinality(days))

\* math.ceil(a / b) for b > 0
CeilDiv(a, b) == -((-a) \div b)

\* _ceil_to_moq(qty, moq)
ceil_to_moq(qty, moq) ==
    IF ~moq.some \/ moq.v <= 0 THEN (IF qty.n > 0 THEN qty ELSE Rat(0, 1))
    ELSE IF qty.n <= 0 THEN Rat(0, 1)
    ELSE Rat(CeilDiv(qty.n, qty.d * moq.v) * moq.v, 1)

\* recent14 / prev14 of the trend note
Recent14(df, g) == {i \in g : df[i].Date.day >= MaxDay(df, g) - 14}
Prev14(df, g) ==
    {i \in g : df[i].Date.day < MaxDay(df, g) - 14 /\ df[i].Date.day >= MaxDay(df, g) - 28}

Abs(x) == IF x < 0 THEN -x ELSE x

\* (a variant without the test abs(pct) >= 10)
TrendNoteAnyChange(df, g) ==
    LET r14 == Recent14(df, g)
        p14 == Prev14(df, g)
        pn == SumOver(p14, UnitsOf(df, p14))
    IN  /\ r14 # {} /\ p14 # {}
        /\ CountUnits(df, p14) > 0 /\ pn > 0
        /\ CountUnits(df, r14) > 0

\* trend_note is set: both windows non-empty, p > 0 and abs((r - p) / p * 100) >= 10,
\* r and p the means of the UnitsSold present (NaN when none is: every test on NaN is False)
TrendNote(df, g) ==
    LET r14 == Recent14(df, g)
        p14 == Prev14(df, g)
        rn == SumOver(r14, UnitsOf(df, r14))
        rd == CountUnits(df, r14)
        pn == SumOver(p14, UnitsOf(df, p14))
        pd == CountUnits(df, p14)
    IN  /\ r14 # {} /\ p14 # {}
        /\ pd > 0 /\ pn > 0
        /\ rd > 0
        /\ 100 * Abs(rn * pd - pn * rd) >= 10 * rd * pn

\* the reason text: which sentences it holds
Reason(avg_daily, trend) ==
    IF avg_daily.n = 0 THEN "no_recent_sales"
    ELSE IF trend THEN "summary_trend" ELSE "summary"

\* the Recommendation of one SKU: lines 64-143 of compute_recommendations,
\* for a last row whose LeadTimeDays is not NaN
SkuRecord(df, g, last, h, td) ==
    LET on_hand == OrZero(df[last].OnHand)
        lead_time == OrZero(df[last].LeadTimeDays).v
        moq_val == df[last].MOQ
        moq == IF moq_val.some /\ ~moq_val.v.nan THEN Some(moq_val.v.v) ELSE None
        cost_val == df[last].Cost
        unit_cost == IF cost_val.some /\ ~cost_val.v.nan THEN Some(cost_val.v.v) ELSE None
        avg_daily == AvgDaily(df, g)
        forecast_30d == RMulInt(avg_daily, h)
        target_stock == RMulInt(avg_daily, h + (IF lead_time > 0 THEN lead_time ELSE 0))
        \* max(0.0, target_stock - on_hand): max keeps its first argument unless the
        \* second compares greater, and NaN never does
        reorder_qty_raw ==
            IF on_hand.nan THEN Rat(0, 1)
            ELSE LET x == RSubInt(target_stock, on_hand.v)
                 IN  IF x.n > 0 THEN x ELSE Rat(0, 1)
        reorder_qty == ceil_to_moq(reorder_qty_raw, moq)
        \* (on_hand / avg_daily) if avg_daily > 0 else inf
        dus == IF avg_daily.n > 0
               THEN (IF on_hand.nan THEN [kind |-> "nan", q |-> Rat(0, 1)]
                     ELSE [kind |-> "fin", q |-> Rat(on_hand.v * avg_daily.d, avg_daily.n)])
               ELSE [kind |-> "inf", q |-> Rat(0, 1)]
        \* math.isfinite(days_until_stockout)
        reorder_by ==
            IF dus.kind = "fin"
            THEN LET fl == (dus.q.n - lead_time * dus.q.d) \div dus.q.d
                     days_to_order == IF fl > 0 THEN fl ELSE 0
                 IN  Some(td + days_to_order)
            ELSE None
        \* NaN <= x is False, inf <= x is False
        status ==
            IF avg_daily.n = 0 THEN "GREEN"
            ELSE IF dus.kind = "fin" /\ RLe(dus.q, Rat(lead_time, 1)) THEN "RED"
            ELSE IF dus.kind = "fin" /\ RLe(dus.q, Rat(lead_time + 7, 1)) THEN "AMBER"
            ELSE "GREEN"
        reason == Reason(avg_daily, TrendNote(df, g))
    IN  [sku |-> df[last].SKU,
         current_stock |-> on_hand,
         avg_daily_sales |-> avg_daily,
         forecast_30d |-> forecast_30d,
         reorder_qty |-> reorder_qty,
         reorder_by |-> reorder_by,
         lead_time_days |-> lead_time,
         moq |-> moq,
         unit_cost |-> unit_cost,
         status |-> status,
         reason |-> reason]

\* order = {"RED": 0, "AMBER": 1, "GREEN": 2}; order.get(r.status, 9)
StatusOrder(s) == CASE s = "RED" -> 0 [] s = "AMBER" -> 1 [] s = "GREEN" -> 2 [] OTHER -> 9

\* key(a) <= key(b) for key = (order.get(status, 9), -reorder_qty), tuples compared in order
KeyLe(a, b) ==
    \/ StatusOrder(a.status) < StatusOrder(b.status)
    \/ /\ StatusOrder(a.status) = StatusOrder(b.status)
       /\ RLe(b.reorder_qty, a.reorder_qty)

\* list.sort is stable: a record goes after every record whose key is not greater
RECURSIVE Insert(_, _)
Insert(sorted, r) ==
    IF sorted = <<>> THEN <<r>>
    ELSE IF KeyLe(sorted[Len(sorted)], r) THEN Append(sorted, r)
    ELSE Append(Insert(SubSeq(sorted, 1, Len(sorted) - 1), r), sorted[Len(sorted)])

RECURSIVE SortFrom(_, _)
SortFrom(done, rest) ==
    IF rest = <<>> THEN done ELSE SortFrom(Insert(done, Head(rest)), Tail(rest))

\* (a variant whose key is the status alone)
SortRecsByStatusOnly(recs) ==
    LET st(r) == [r EXCEPT !.reorder_qty = Rat(0, 1)]
        RECURSIVE Ins(_, _)
        Ins(sorted, r) ==
            IF sorted = <<>> THEN <<r>>
            ELSE IF KeyLe(st(sorted[Len(sorted)]), st(r)) THEN Append(sorted, r)
            ELSE Append(Ins(SubSeq(sorted, 1, Len(sorted) - 1), r), sorted[Len(sorted)])
        RECURSIVE Go(_, _)
        Go(done, rest) == IF rest = <<>> THEN done ELSE Go(Ins(done, Head(rest)), Tail(rest))
    IN  Go(<<>>, recs)

\* recs.sort(key=lambda r: (order.get(r.status, 9), -r.reorder_qty))
SortRecs(recs) == SortFrom(<<>>, recs)

\* the SKU identifiers of the model in the order groupby yields its keys (sorted)
SkuOrder == <<"A", "B">>

\* the records of the loop over df.groupby("SKU"), in key order, given the last row of each group
LoopRecs(df, last, h, td) ==
    LET keys == SelectSeq(SkuOrder, LAMBDA s : s \in SkuKeys(df))
    IN  [k \in 1..Len(keys) |-> SkuRecord(df, Group(df, keys[k]), last[keys[k]], h, td)]

NoResult == [kind |-> "none", missing |-> <<>>, recs |-> <<>>]

\* raise ValueError(f"Missing required columns: {missing}")
RaiseMissingColumns ==
    /\ pc = "start"
    /\ MissingCols(cols) # <<>>
    /\ pc' = "done"
    /\ result' = [kind |-> "MissingColumns", missing |-> MissingCols(cols), recs |-> <<>>]
    /\ UNCHANGED <<cols, table, horizon_days, today, sortVars, jwksVars>>

\* int(NaN) in the loop: ValueError("cannot convert float NaN to integer"), nothing returned
RaiseNaNToInt ==
    /\ pc = "start"
    /\ MissingCols(cols) = <<>>
    /\ LET df == Normalize(table, cols)
       IN  \E last \in [SkuKeys(df) -> 1..Len(df)] :
              /\ \A s \in SkuKeys(df) : last[s] \in LastRows(df, Group(df, s))
              /\ \E s \in SkuKeys(df) : LeadTimeRaises(df[last[s]])
    /\ pc' = "done"
    /\ result' = [kind |-> "NaNToInt", missing |-> <<>>, recs |-> <<>>]
    /\ UNCHANGED <<cols, table, horizon_days, today, sortVars, jwksVars>>

\* the loop completes, the list is sorted and returned
ReturnRecs ==
    /\ pc = "start"
    /\ MissingCols(cols) = <<>>
    /\ LET df == Normalize(table, cols)
       IN  \E last \in [SkuKeys(df) -> 1..Len(df)] :
              /\ \A s \in SkuKeys(df) : last[s] \in LastRows(df, Group(df, s))
              /\ \A s \in SkuKeys(df) : ~LeadTimeRaises(df[last[s]])
              /\ result' = [kind |-> "ok", missing |-> <<>>,
                            recs |-> SortRecs(LoopRecs(df, last, horizon_days, today))]
    /\ pc' = "done"
    /\ UNCHANGED <<cols, table, horizon_days, today, sortVars, jwksVars>>

\* nothing handed to the sort / no call of _get_jwks_client yet, cache empty
SortIdle == recs_in = <<>> /\ recs_out = <<>> /\ sort_pc = "sorted"

Threads == 1..MaxThreads

\* how a call of _get_jwks_client ended: "nothing" (not yet), "client", "KeyError", "HTTP500"
Outcome(k) == [kind |-> k, client |-> 0, at |-> 0]

JwksIdle ==
    /\ now = 0
    /\ cache = [present |-> FALSE, client |-> 0, expires |-> 0]
    /\ tpc = [t \in Threads |-> "idle"]
    /\ tlocal = [t \in Threads |-> 0]
    /\ treturned = [t \in Threads |-> Outcome("nothing")]
    /\ built = <<>>

---------------------------------------------------------------------------
(* The uploaded tables of the model: up to MaxRows rows drawn from these *)

RowPool ==
    { Row("A", DateStr(28), Lit(2),   Lit(5),   Lit(0), Lit(20), Lit(3)),
      Row("A", DateStr(28), Lit(2),   Lit(8),   Lit(5), Blank,   Blank),
      Row("A", DateStr(28), Lit(2),   Lit(12),  Lit(5), Lit(0),  Lit(3)),
      Row("A", DateStr(28), Lit(10),  Lit(130), Lit(5), Blank,   Blank),
      Row("A", DateStr(28), Lit(2),   Blank,    Lit(5), Lit(20), Blank),
      Row("A", DateStr(28), Lit(2),   Lit(8),   Blank,  Blank,   Blank),
      Row("A", DateStr(28), Lit(0),   Lit(8),   Lit(5), Lit(20), Blank),
      Row("A", DateStr(14), Blank,    Lit(8),   Lit(5), Blank,   Blank),
      Row("A", DateStr(29), Lit(-12), Lit(8),   Lit(5), Blank,   Blank),
      Row("A", DateStr(14), Lit(10),  Lit(8),   Lit(5), Blank,   Blank),
      Row("A", DateStr(0),  Lit(11),  Lit(8),   Lit(5), Blank,   Blank),
      Row("A", DateStr(29), Lit(11),  Lit(100), Lit(5), Lit(-1), Blank),
      Row("A", Blank,       Lit(7),   Lit(0),   Lit(0), Lit(20), Blank),
      Row("B", DateStr(28), Lit(2),   Lit(8),   Lit(5), Blank,   Blank),
      Row("B", DateStr(14), Lit(11),  Lit(100), Lit(0), Lit(20), Blank),
      Row("B", DateStr(28), Lit(0),   Lit(8),   Blank,  Blank,   Blank) }

Tables == UNION {[1..k -> RowPool] : k \in 0..MaxRows}

ColumnSets == {AllCols \ X : X \in {Y \in SUBSET AllCols : Cardinality(Y) <= MaxMissing}}

Horizons == {30, 7}

Init ==
    /\ cols \in ColumnSets
    /\ table \in Tables
    /\ horizon_days \in Horizons
    /\ today = 0
    /\ pc = "start"
    /\ result = NoResult
    /\ SortIdle
    /\ JwksIdle /\ jwks_url_set = TRUE

Next == RaiseMissingColumns \/ RaiseNaNToInt \/ ReturnRecs

Spec == Init /\ [][Next]_vars

---------------------------------------------------------------------------
(* The sort of the recommendation list on its own *)

SortStatuses == {"RED", "AMBER", "GREEN"}
SortQtys == {1, 3, 5, 9}
SortRecPool == {[status |-> st, reorder_qty |-> Rat(q, 1)] : st \in SortStatuses, q \in SortQtys}

InitSort ==
    /\ recs_in \in UNION {[1..k -> SortRecPool] : k \in 0..MaxRecs}
    /\ recs_out = <<>>
    /\ sort_pc = "unsorted"
    /\ cols = AllCols /\ table = <<>> /\ horizon_days = 30 /\ today = 0
    /\ pc = "done" /\ result = NoResult
    /\ JwksIdle /\ jwks_url_set = TRUE

SortStep ==
    /\ sort_pc = "unsorted"
    /\ recs_out' = SortRecs(recs_in)
    /\ sort_pc' = "sorted"
    /\ UNCHANGED <<recs_in, computeVars, jwksVars>>

NextSort == SortStep

SpecSort == InitSort /\ [][NextSort]_vars

---------------------------------------------------------------------------
(* _get_jwks_client under several worker threads.  verify_clerk_token is a *)
(* plain def dependency, which the framework runs in a thread pool, so     *)
(* calls interleave between any two steps below.                           *)

\* TTLCache(maxsize=2, ttl=3600)
TTL == 3600

\* the timer advances in steps of half a TTL
TickSeconds == TTL \div 2

\* "client" in _jwks_client_cache: the key is held and its entry has not expired
InCache == cache.present /\ now < cache.expires

\* a request arrives: verify_clerk_token reaches jwks_client = _get_jwks_client()
Call(t) ==
    /\ tpc[t] = "idle"
    /\ tpc' = [tpc EXCEPT ![t] = "check"]
    /\ treturned' = [treturned EXCEPT ![t] = Outcome("nothing")]
    /\ UNCHANGED <<now, cache, tlocal, built, jwks_url_set, computeVars, sortVars>>

\* if "client" not in _jwks_client_cache:
CheckAbsent(t) ==
    /\ tpc[t] = "check"
    /\ ~InCache
    /\ tpc' = [tpc EXCEPT ![t] = "url"]
    /\ UNCHANGED <<now, cache, tlocal, treturned, built, jwks_url_set, computeVars, sortVars>>

CheckPresent(t) ==
    /\ tpc[t] = "check"
    /\ InCache
    /\ tpc' = [tpc EXCEPT ![t] = "return"]
    /\ UNCHANGED <<now, cache, tlocal, treturned, built, jwks_url_set, computeVars, sortVars>>

\* if not CLERK_JWKS_URL: raise HTTPException(500)
RaiseMisconfigured(t) ==
    /\ tpc[t] = "url"
    /\ ~jwks_url_set
    /\ tpc' = [tpc EXCEPT ![t] = "idle"]
    /\ treturned' = [treturned EXCEPT ![t] = Outcome("HTTP500")]
    /\ UNCHANGED <<now, cache, tlocal, built, jwks_url_set, computeVars, sortVars>>

\* PyJWKClient(CLERK_JWKS_URL): a new instance, numbered in order of construction
Construct(t) ==
    /\ tpc[t] = "url"
    /\ jwks_url_set
    /\ Len(built) < MaxClients
    /\ built' = Append(built, now)
    /\ tlocal' = [tlocal EXCEPT ![t] = Len(built) + 1]
    /\ tpc' = [tpc EXCEPT ![t] = "store"]
    /\ UNCHANGED <<now, cache, treturned, jwks_url_set, computeVars, sortVars>>

\* _jwks_client_cache["client"] = <the instance>: the entry expires ttl after the store
Store(t) ==
    /\ tpc[t] = "store"
    /\ cache' = [present |-> TRUE, client |-> tlocal[t], expires |-> now + TTL]
    /\ tpc' = [tpc EXCEPT ![t] = "return"]
    /\ UNCHANGED <<now, tlocal, treturned, built, jwks_url_set, computeVars, sortVars>>

\* return _jwks_client_cache["client"]: KeyError when the entry has expired meanwhile
Return(t) ==
    /\ tpc[t] = "return"
    /\ treturned' = [treturned EXCEPT ![t] =
                        IF InCache THEN [kind |-> "client", client |-> cache.client, at |-> now]
                        ELSE Outcome("KeyError")]
    /\ tpc' = [tpc EXCEPT ![t] = "idle"]
    /\ UNCHANGED <<now, cache, tlocal, built, jwks_url_set, computeVars, sortVars>>

\* time passes
Tick ==
    /\ now < MaxTicks * TickSeconds
    /\ now' = now + TickSeconds
    /\ UNCHANGED <<cache, tpc, tlocal, treturned, built, jwks_url_set, computeVars, sortVars>>

InitJwks ==
    /\ JwksIdle
    /\ jwks_url_set \in BOOLEAN
    /\ SortIdle
    /\ cols = AllCols /\ table = <<>> /\ horizon_days = 30 /\ today = 0
    /\ pc = "done" /\ result = NoResult

NextJwks ==
    \/ \E t \in Threads : Call(t)
    \/ \E t \in Threads : CheckAbsent(t)
    \/ \E t \in Threads : CheckPresent(t)
    \/ \E t \in Threads : RaiseMisconfigured(t)
    \/ \E t \in Threads : Construct(t)
    \/ \E t \in Threads : Store(t)
    \/ \E t \in Threads : Return(t)
    \/ Tick

SpecJwks == InitJwks /\ [][NextJwks]_vars

---------------------------------------------------------------------------
(* What the claims speak of, read off the uploaded table itself *)

Required == {"SKU", "Date", "UnitsSold", "OnHand", "LeadTimeDays"}
Complete == Required \subseteq cols
Returned == pc = "done" /\ result.kind = "ok"
RecIdx == 1..Len(result.recs)

\* the rows of a SKU whose date can be read, the latest of their dates, the rows that bear it
DatedRows(s) == {i \in 1..Len(table) : table[i].SKU = s /\ table[i].Date.kind = "date"}
Skus == {table[i].SKU : i \in {j \in 1..Len(table) : table[j].Date.kind = "date"}}
LatestDay(s) == CHOOSE m \in {table[i].Date.v : i \in DatedRows(s)} :
                    \A i \in DatedRows(s) : table[i].Date.v <= m
LatestRows(s) == {i \in DatedRows(s) : table[i].Date.v = LatestDay(s)}

\* the 28-day demand window and the two 14-day windows of a SKU
Window28(s) == {i \in DatedRows(s) : table[i].Date.v >= LatestDay(s) - 28}
WindowRecent(s) == {i \in DatedRows(s) : table[i].Date.v >= LatestDay(s) - 14}
WindowPrior(s) ==
    {i \in DatedRows(s) : /\ table[i].Date.v >= LatestDay(s) - 28
                          /\ table[i].Date.v < LatestDay(s) - 14}

HasUnits(i) == table[i].UnitsSold.kind = "number"
Units(i) == IF HasUnits(i) THEN table[i].UnitsSold.v ELSE 0
UnitsSum(S) == SumOver(S, [i \in S |-> Units(i)])
UnitsCount(S) == Cardinality({i \in S : HasUnits(i)})
NoNegativeUnits(s) == \A i \in DatedRows(s) : Units(i) >= 0

\* on-hand as the specification takes it: 0 when the value is missing
OnHand0(rec) == IF rec.current_stock.nan THEN 0 ELSE rec.current_stock.v

---------------------------------------------------------------------------
(* C1.  A table lacking required columns fails with the missing-columns    *)
(* error, whose names are exactly the required columns that are absent,    *)
(* and nothing is returned; a table with all five never gets this error.   *)
C1_ColumnGuard ==
    pc = "done" =>
        IF Complete
        THEN result.kind # "MissingColumns"
        ELSE /\ result.kind = "MissingColumns"
             /\ {result.missing[i] : i \in 1..Len(result.missing)} = Required \ cols
             /\ Len(result.missing) = Cardinality(Required \ cols)
             /\ result.recs = <<>>

C1_Witness ==
    /\ pc = "done"
    /\ result.kind = "MissingColumns"
    /\ Len(result.missing) = 2
    /\ "MOQ" \in cols

(* C2.  With all required columns present, a missing or unreadable OnHand  *)
(* or LeadTimeDays in a SKU's last row never fails the request: the value  *)
(* is taken as 0 (current_stock = 0, lead_time_days = 0) and the full list *)
(* is returned.                                                            *)
C2_MissingSnapshotDefaultsToZero ==
    (pc = "done" /\ Complete) =>
        /\ result.kind = "ok"
        /\ \A k \in RecIdx :
              LET rec == result.recs[k] IN
              /\ (\A i \in LatestRows(rec.sku) : table[i].OnHand.kind = "text")
                    => rec.current_stock = Num(0)
              /\ (\A i \in LatestRows(rec.sku) : table[i].LeadTimeDays.kind = "text")
                    => rec.lead_time_days = 0

\* raw_qty of C3 for a record, as a fraction
RawQty(rec) ==
    LET lt0 == IF rec.lead_time_days > 0 THEN rec.lead_time_days ELSE 0
        avg == rec.avg_daily_sales
        x == Rat(avg.n * (horizon_days + lt0) - OnHand0(rec) * avg.d, avg.d)
    IN  IF x.n > 0 THEN x ELSE Rat(0, 1)

(* C3.  reorder_qty >= 0; with raw_qty = max(0, avg_daily_sales *           *)
(* (horizon_days + max(lead_time, 0)) - on_hand) it is the smallest         *)
(* multiple of moq that is >= raw_qty when moq is a positive integer, and   *)
(* raw_qty itself when moq is null or not positive.                         *)
C3_ReorderQty ==
    Returned =>
        \A k \in RecIdx :
            LET rec == result.recs[k]
                q == rec.reorder_qty
                raw == RawQty(rec)
            IN  /\ q.n >= 0
                /\ IF rec.moq.some /\ rec.moq.v > 0
                   THEN /\ q.n % (q.d * rec.moq.v) = 0
                        /\ RLe(raw, q)
                        /\ RLt(RSubInt(q, rec.moq.v), raw)
                   ELSE REq(q, raw)

\* on_hand / avg_daily_sales <= x, for avg_daily_sales # 0
StockoutWithin(rec, x) ==
    LET avg == rec.avg_daily_sales IN
    IF avg.n > 0 THEN OnHand0(rec) * avg.d <= x * avg.n
    ELSE OnHand0(rec) * avg.d >= x * avg.n

(* C4.  For a SKU with avg_daily_sales # 0 and days_until_stockout =         *)
(* on_hand / avg_daily_sales: RED exactly when days_until_stockout <=        *)
(* lead_time, AMBER exactly when lead_time < days_until_stockout <=          *)
(* lead_time + 7, GREEN exactly when days_until_stockout > lead_time + 7.    *)
(* Stated here for the SKUs without negative UnitsSold, which it covers.     *)
C4_StatusBoundaries ==
    Returned =>
        \A k \in RecIdx :
            LET rec == result.recs[k]
                lt == rec.lead_time_days
            IN  (rec.avg_daily_sales.n # 0 /\ NoNegativeUnits(rec.sku)) =>
                /\ rec.status \in {"RED", "AMBER", "GREEN"}
                /\ rec.status = "RED" <=> StockoutWithin(rec, lt)
                /\ rec.status = "AMBER" <=>
                      (~StockoutWithin(rec, lt) /\ StockoutWithin(rec, lt + 7))
                /\ rec.status = "GREEN" <=> ~StockoutWithin(rec, lt + 7)

\* every other SKU's last rows carry a LeadTimeDays
OthersHaveLeadTime(s) ==
    \A o \in Skus \ {s} : \A i \in LatestRows(o) : table[i].LeadTimeDays.kind = "number"

(* C5.  A SKU whose UnitsSold in the trailing 28-day window are all zero     *)
(* gets avg_daily_sales = 0, status GREEN, no reorder_by and the fixed       *)
(* no-recent-sales reason, and nothing fails for it.  (The other SKUs of     *)
(* the table are taken not to fail either.)                                  *)
C5_ZeroDemand ==
    (pc = "done" /\ Complete) =>
        \A s \in Skus :
            ((\A i \in Window28(s) : HasUnits(i) /\ Units(i) = 0) /\ OthersHaveLeadTime(s)) =>
                /\ result.kind = "ok"
                /\ \E k \in RecIdx :
                      LET rec == result.recs[k] IN
                      /\ rec.sku = s
                      /\ rec.avg_daily_sales.n = 0
                      /\ rec.status = "GREEN"
                      /\ ~rec.reorder_by.some
                      /\ rec.reason = "no_recent_sales"

\* status priority of the sort
Priority(st) == CASE st = "RED" -> 0 [] st = "AMBER" -> 1 [] st = "GREEN" -> 2

ExampleIn ==
    << [status |-> "GREEN", reorder_qty |-> Rat(5, 1)],
       [status |-> "RED",   reorder_qty |-> Rat(1, 1)],
       [status |-> "AMBER", reorder_qty |-> Rat(9, 1)],
       [status |-> "RED",   reorder_qty |-> Rat(3, 1)] >>

ExampleOut ==
    << [status |-> "RED",   reorder_qty |-> Rat(3, 1)],
       [status |-> "RED",   reorder_qty |-> Rat(1, 1)],
       [status |-> "AMBER", reorder_qty |-> Rat(9, 1)],
       [status |-> "GREEN", reorder_qty |-> Rat(5, 1)] >>

(* C6.  In the sorted list every record's status priority is <= that of     *)
(* the next record (RED, AMBER, GREEN), and of two adjacent records of      *)
(* equal status the earlier has the greater or equal reorder_qty;           *)
(* [GREEN(5), RED(1), AMBER(9), RED(3)] comes out as RED(3), RED(1),        *)
(* AMBER(9), GREEN(5).                                                      *)
C6_SortOrder ==
    sort_pc = "sorted" =>
        /\ Len(recs_out) = Len(recs_in)
        /\ \A k \in 1..(Len(recs_out) - 1) :
              LET a == recs_out[k]
                  b == recs_out[k + 1]
              IN  /\ Priority(a.status) <= Priority(b.status)
                  /\ a.status = b.status => RLe(b.reorder_qty, a.reorder_qty)
        /\ recs_in = ExampleIn => recs_out = ExampleOut

C6_Witness == sort_pc = "sorted" /\ recs_in = ExampleIn /\ recs_out = ExampleOut

(* C7.  reorder_by is absent exactly when avg_daily_sales is 0; otherwise   *)
(* it is today + max(0, floor(on_hand / avg_daily_sales - lead_time)) days, *)
(* never earlier than today.  Stated here for the SKUs without negative     *)
(* UnitsSold, which it covers.                                              *)
C7_ReorderBy ==
    Returned =>
        \A k \in RecIdx :
            LET rec == result.recs[k]
                avg == rec.avg_daily_sales
                fl == (OnHand0(rec) * avg.d - rec.lead_time_days * avg.n) \div avg.n
            IN  NoNegativeUnits(rec.sku) =>
                /\ ~rec.reorder_by.some <=> avg.n = 0
                /\ avg.n # 0 =>
                      /\ rec.reorder_by.v = today + (IF fl > 0 THEN fl ELSE 0)
                      /\ rec.reorder_by.v >= today

\* the demand rate of C8: the UnitsSold of the window over its distinct dates
RateIsWindowMean(rec) ==
    LET w == Window28(rec.sku)
        days == {table[i].Date.v : i \in w}
    IN  /\ rec.avg_daily_sales.d > 0
        /\ rec.avg_daily_sales.n * Cardinality(days) = UnitsSum(w) * rec.avg_daily_sales.d
        /\ REq(rec.forecast_30d, RMulInt(rec.avg_daily_sales, horizon_days))

(* C8 as stated: avg_daily_sales >= 0 for every SKU, it is the sum of       *)
(* UnitsSold over the rows with Date >= max(Date) - 28 days (unreadable     *)
(* dates left out, missing UnitsSold adding nothing) divided by the number  *)
(* of distinct dates among them, and forecast_30d = avg_daily_sales *       *)
(* horizon_days.                                                            *)
C8_Original ==
    Returned =>
        \A k \in RecIdx :
            /\ result.recs[k].avg_daily_sales.n >= 0
            /\ RateIsWindowMean(result.recs[k])

(* C8, amended.  avg_daily_sales is that quotient and forecast_30d that     *)
(* product for every SKU; it is >= 0 when no UnitsSold of the window is     *)
(* negative (negative UnitsSold are summed like any other).                 *)
C8_DemandRate ==
    Returned =>
        \A k \in RecIdx :
            LET rec == result.recs[k] IN
            /\ RateIsWindowMean(rec)
            /\ (\A i \in Window28(rec.sku) : Units(i) >= 0) => rec.avg_daily_sales.n >= 0

\* two rows of one date in the window count as one day
C8_Witness ==
    /\ Returned
    /\ \E k \in RecIdx :
          LET rec == result.recs[k] IN
          /\ Cardinality(Window28(rec.sku)) = 2
          /\ Cardinality({table[i].Date.v : i \in Window28(rec.sku)}) = 1
          /\ rec.avg_daily_sales.n > 0
          /\ rec.avg_daily_sales.d = 1

\* the conditions of C9 on the two windows of a SKU
TrendConditions(s) ==
    LET r == WindowRecent(s)
        p == WindowPrior(s)
    IN  /\ r # {} /\ p # {}
        /\ UnitsCount(p) > 0 /\ UnitsSum(p) > 0
        /\ UnitsCount(r) > 0
        /\ 100 * Abs(UnitsSum(r) * UnitsCount(p) - UnitsSum(p) * UnitsCount(r))
              >= 10 * UnitsSum(p) * UnitsCount(r)

WindowsPartition(s) ==
    /\ WindowRecent(s) \cap WindowPrior(s) = {}
    /\ WindowRecent(s) \cup WindowPrior(s) = Window28(s)

C10_SingleClientPerTtl ==
    \A i, j \in DOMAIN built : i < j => built[j] >= built[i] + TTL

====
